---- MODULE Spec2Model ----
(***************************************************************************)
(* Model of the cooldown subsystem of WOKCommands:                         *)
(*   src/src/util/Cooldowns.ts   class Cooldowns (the cooldown manager)    *)
(*   src/unnamed/part_000        CommandHandler.runCommand (the dispatcher)*)
(*                                                                         *)
(* Time is counted in whole seconds.  A string is a sequence of            *)
(* one-character strings where the code looks inside it (durations), a     *)
(* sequence of pieces where the code only searches it for the {TIME}       *)
(* token (error messages), and a TLA+ string where it is only compared or  *)
(* concatenated (ids, keys).                                               *)
(***************************************************************************)
EXTENDS Integers, Sequences, FiniteSets, TLC

VARIABLES
  _cooldowns,        \* Cooldowns._cooldowns: the Map key -> expires
  db,                \* the cooldownSchema collection: _id -> expires
  now,               \* the wall clock, new Date(), in seconds
  _botOwnersBypass,  \* Cooldowns._botOwnersBypass
  _dbRequired,       \* Cooldowns._dbRequired
  loader,            \* the position of the un-awaited loadCooldowns()
  calls,             \* manager calls suspended at their await on the store
  last,              \* the manager call that returned, suspended or settled last
  disp,              \* the runCommand invocations of the dispatcher
  nOps               \* number of manager calls and dispatches made so far

vars == <<_cooldowns, db, now, _botOwnersBypass, _dbRequired, loader, calls,
          last, disp, nOps>>

-----------------------------------------------------------------------------
(* Bounds of the model. *)

MaxNow == 2
MaxOps == 2
MaxLen == 3

-----------------------------------------------------------------------------
(* Constants of the program. *)

cooldownDurations == [s |-> 1, m |-> 60, h |-> 60 * 60, d |-> 60 * 60 * 24]

cooldownTypes == <<"perUser", "perUserPerGuild", "perGuild", "global">>

\* errorMessage = 'Please wait {TIME} before doing that again.'
defaultErrorMessage == <<"Please wait ", "{TIME}", " before doing that again.">>

\* WOKCommands.botOwners of the instance the manager is built for.
botOwners == {"o1"}

Range(f) == {f[i] : i \in DOMAIN f}

-----------------------------------------------------------------------------
(* Pure functions of Cooldowns.ts. *)

\* The value of an absent optional field, and of a function that falls off
\* its end.
undefined == "undefined"

getKey_NoGuildCheck(cooldownType, userId, actionId, guildId) ==
  [threw |-> FALSE,
   key |-> CASE cooldownType = "perUser" -> userId \o "-" \o actionId
             [] cooldownType = "perUserPerGuild" ->
                  userId \o "-" \o guildId \o "-" \o actionId
             [] cooldownType = "perGuild" -> guildId \o "-" \o actionId
             [] cooldownType = "global" -> actionId
             [] OTHER -> undefined]

\* getKey: [threw |-> TRUE] for a guild scope without guild id, else the key;
\* an unrecognised type falls through every branch and yields undefined.
getKey(cooldownType, userId, actionId, guildId) ==
  LET isPerUser == cooldownType = cooldownTypes[1]
      isPerUserPerGuild == cooldownType = cooldownTypes[2]
      isPerGuild == cooldownType = cooldownTypes[3]
      isGlobal == cooldownType = cooldownTypes[4]
  IN  IF (isPerUserPerGuild \/ isPerGuild) /\ guildId = ""
        THEN [threw |-> TRUE, key |-> undefined]
      ELSE IF isPerUser
        THEN [threw |-> FALSE, key |-> userId \o "-" \o actionId]
      ELSE IF isPerUserPerGuild
        THEN [threw |-> FALSE,
              key |-> userId \o "-" \o guildId \o "-" \o actionId]
      ELSE IF isPerGuild
        THEN [threw |-> FALSE, key |-> guildId \o "-" \o actionId]
      ELSE IF isGlobal
        THEN [threw |-> FALSE, key |-> actionId]
      ELSE [threw |-> FALSE, key |-> undefined]

getKeyFromCooldownUsage(cooldownUsage) ==
  getKey(cooldownUsage.cooldownType, cooldownUsage.userId,
         cooldownUsage.actionId, cooldownUsage.guildId)

canBypass_NotOwner(userId) == _botOwnersBypass /\ userId \notin botOwners

\* canBypass, lines 173-175.
canBypass(userId) == _botOwnersBypass /\ userId \in botOwners

\* String.prototype.split(' ') on a sequence of characters.
RECURSIVE split(_)
split(str) ==
  IF \A i \in DOMAIN str : str[i] # " "
    THEN <<str>>
    ELSE LET i == CHOOSE k \in DOMAIN str :
                    str[k] = " " /\ \A j \in 1..(k - 1) : str[j] # " "
         IN  <<SubSeq(str, 1, i - 1)>> \o split(SubSeq(str, i + 1, Len(str)))

\* The characters of a sequence joined into one string.
RECURSIVE join(_)
join(chars) ==
  IF chars = <<>> THEN "" ELSE Head(chars) \o join(Tail(chars))

digits == <<"0", "1", "2", "3", "4", "5", "6", "7", "8", "9">>

digitValue(c) == (CHOOSE i \in DOMAIN digits : digits[i] = c) - 1

RECURSIVE decimal(_)
decimal(chars) ==
  IF chars = <<>> THEN 0
  ELSE 10 * decimal(SubSeq(chars, 1, Len(chars) - 1))
       + digitValue(chars[Len(chars)])

\* The unary plus of `+split[0]`: the empty string is 0, a run of decimal
\* digits with an optional sign is its value, and any other token of the
\* alphabet used here (digits, sign, letters other than a well-formed
\* exponent, hex prefix or "Infinity") is NaN.
toNumber(token) ==
  LET signed == token # <<>> /\ Head(token) \in {"-", "+"}
      body == IF signed THEN Tail(token) ELSE token
  IN  IF token = <<>> THEN [nan |-> FALSE, value |-> 0]
      ELSE IF body # <<>> /\ \A i \in DOMAIN body : body[i] \in Range(digits)
        THEN [nan |-> FALSE,
              value |-> IF signed /\ Head(token) = "-"
                          THEN 0 - decimal(body) ELSE decimal(body)]
      ELSE [nan |-> TRUE, value |-> 0]

upperCase == [S |-> "s", M |-> "m", H |-> "h", D |-> "d", X |-> "x"]

\* String.prototype.toLowerCase on the letters used here.
toLowerCase(chars) ==
  [i \in DOMAIN chars |->
     IF chars[i] \in DOMAIN upperCase THEN upperCase[chars[i]] ELSE chars[i]]

\* A duration as the caller passes it: a number, or a string of characters.
numberDuration(n) == [type |-> "number", value |-> n, text |-> <<>>]
stringDuration(chars) == [type |-> "string", value |-> 0, text |-> chars]

\* verifyCooldown: threw, or the seconds (nan: the product is NaN).
verifyCooldown(duration) ==
  IF duration.type = "number"
    THEN [threw |-> FALSE, nan |-> FALSE, seconds |-> duration.value]
  ELSE
    LET parts == split(duration.text)
    IN  IF Len(parts) # 2
          THEN [threw |-> TRUE, nan |-> FALSE, seconds |-> 0]
        ELSE
          LET quantity == toNumber(parts[1])
              type == join(toLowerCase(parts[2]))
          IN  IF type \notin DOMAIN cooldownDurations
                THEN [threw |-> TRUE, nan |-> FALSE, seconds |-> 0]
              ELSE IF ~quantity.nan /\ quantity.value <= 0
                THEN [threw |-> TRUE, nan |-> FALSE, seconds |-> 0]
              ELSE [threw |-> FALSE, nan |-> quantity.nan,
                    seconds |-> quantity.value * cooldownDurations[type]]

\* The remaining time of a denial, canRunAction lines 247-257.
formatTime(secondsDiff) ==
  LET d == secondsDiff \div (3600 * 24)
      h == (secondsDiff % (3600 * 24)) \div 3600
      m == (secondsDiff % 3600) \div 60
      s == secondsDiff % 60
  IN  (IF d > 0 THEN ToString(d) \o "d " ELSE "")
      \o (IF h > 0 THEN ToString(h) \o "h " ELSE "")
      \o (IF m > 0 THEN ToString(m) \o "m " ELSE "")
      \o ToString(s) \o "s"

\* String.prototype.replace('{TIME}', time) with a string pattern: the first
\* occurrence only.  The message is a sequence of pieces, the token a piece.
replace(errorMessage, time) ==
  IF "{TIME}" \notin Range(errorMessage)
    THEN errorMessage
    ELSE LET i == CHOOSE k \in DOMAIN errorMessage :
                    /\ errorMessage[k] = "{TIME}"
                    /\ \A j \in 1..(k - 1) : errorMessage[j] # "{TIME}"
         IN  [errorMessage EXCEPT ![i] = time]

-----------------------------------------------------------------------------
(* The inputs of the calls. *)

Durations ==
  { numberDuration(1), numberDuration(2),
    stringDuration(<<"1", " ", "M">>), stringDuration(<<"0", " ", "s">>) }

\* The errorMessage of a usage: {} when the field is undefined.
Messages == { {}, {<<"{TIME}", " left, ", "{TIME}">>}, {<<"Slow down">>} }

usage(cooldownType, userId, guildId, duration, errorMessage) ==
  [cooldownType |-> cooldownType, userId |-> userId,
   actionId |-> "command_ping", guildId |-> guildId, duration |-> duration,
   errorMessage |-> errorMessage]

Users == {"u1", "o1"}
Guilds == {"", "g1"}

\* Who asks, under which type and in which guild ("": no guild id, undefined
\* or empty); "perChannel" is no cooldown type.
Requests ==
  { <<"perUser", "u1", "">>,
    <<"perGuild", "u1", "g1">>, <<"perGuild", "o1", "g1">>,
    <<"perGuild", "u1", "">>, <<"perGuild", "o1", "">>,
    <<"perUserPerGuild", "u1", "">>,
    <<"perChannel", "u1", "g1">> }

\* The requests made with every duration and every errorMessage; the others
\* are made with the duration 1 and without errorMessage.
Varied == { <<"perUser", "u1", "">>, <<"perUserPerGuild", "u1", "">> }

\* The usages start is called with: canRunAction does not read the duration,
\* start does not read the errorMessage.
StartUsages ==
  {usage(r[1], r[2], r[3], d, {}) : r \in Varied, d \in Durations}
    \cup {usage(r[1], r[2], r[3], numberDuration(1), {}) : r \in Requests}

CheckUsages ==
  {usage(r[1], r[2], r[3], numberDuration(1), m) :
     r \in Varied, m \in Messages}
    \cup {usage(r[1], r[2], r[3], numberDuration(1), {}) : r \in Requests}

\* cancelCooldown and updateCooldown are reached through the hooks of
\* runCommand, whose cooldownType is one of cooldownTypes.
HookUsages ==
  {usage(r[1], r[2], r[3], numberDuration(1), {}) :
     r \in {q \in Requests : q[1] \in Range(cooldownTypes)}}

\* The distances from now of the expires passed to updateCooldown.
UpdateDeltas == {2, 3}

\* The values dbRequired is configured with.
DbRequiredChoices == {2}

\* The records a previous process left in the collection, by _id.
LeftOver ==
  ("command_ping" :> 0) @@ ("u1-command_ping" :> 1) @@ ("g1-command_ping" :> 3)

-----------------------------------------------------------------------------
(* The state. *)

set(map, key, value) == (key :> value) @@ map

delete_All(map, key) == <<>>

delete(map, key) == [k \in (DOMAIN map) \ {key} |-> map[k]]

\* What a call gave back: kind "true", "string" (the pieces of the message),
\* "undefined" (a promise resolved), "pending" (suspended at an await) or
\* "error" (thrown, or a promise rejected).  line is the source line of the
\* return, throw or await; expires the expiry the call computed or was given.
Event(op, key, line, kind, value, expires) ==
  [op |-> op, key |-> key, line |-> line, kind |-> kind, value |-> value,
   expires |-> expires]

NoEvent == Event("none", undefined, 0, "undefined", <<>>, 0)

InvalidScope == <<"Invalid cooldown type used outside of a guild.">>
UnknownScope == <<"Invalid cooldown type. Please use one of the following">>
MalformedDuration == <<"invalid duration">>

\* The calls that can be suspended at their await at once.
Slots == {1}

FreeSlots == Slots \ DOMAIN calls

\* A call suspended at its await: the store has the request ("sent") or has
\* carried it out and the reply is on its way ("applied").
\* by: the runCommand invocation that awaits the call, 0 when nothing does.
SuspendIn(slots, op, key, expires, by) ==
  LET free == slots \ DOMAIN calls
      id == CHOOSE i \in free : \A j \in free : i <= j
  IN  calls' = set(calls, id,
                   [op |-> op, key |-> key, expires |-> expires,
                    stage |-> "sent", by |-> by])

Suspend(op, key, expires, by) == SuspendIn(Slots, op, key, expires, by)

Init ==
  /\ _cooldowns = <<>>
  /\ db = LeftOver
  /\ now = 1
  /\ _botOwnersBypass \in BOOLEAN
  /\ _dbRequired \in DbRequiredChoices
  /\ loader = [pc |-> "deleteMany", cutoff |-> 1, results |-> <<>>]
  /\ calls = <<>>
  /\ last = NoEvent
  /\ disp = <<>>
  /\ nOps = 0

-----------------------------------------------------------------------------
(* The methods of Cooldowns, each as the outcome of its synchronous part:   *)
(* the event it gives back, the Map it leaves, and whether it is suspended  *)
(* at an await on the store.                                                *)

Outcome(event, cooldowns, await) ==
  [event |-> event, cooldowns |-> cooldowns, await |-> await]

\* errorMessage = this._errorMessage when the usage has none (line 227).
errorMessageOf(cooldownUsage) ==
  IF cooldownUsage.errorMessage = {}
    THEN defaultErrorMessage
    ELSE CHOOSE m \in cooldownUsage.errorMessage : TRUE

startIsDurable_Strict(seconds) == seconds > _dbRequired

updateIsDurable_AtThreshold(expires) == (expires - now) >= _dbRequired

isExpired_AtExpiry(expires) == now >= expires

\* `now > expires`, line 242.
isExpired(expires) == now > expires

isCooldownType_Any(cooldownType) == TRUE

\* `cooldownTypes.includes(cooldownType)`, line 190.
isCooldownType(cooldownType) == cooldownType \in Range(cooldownTypes)

\* `seconds >= this._dbRequired`, line 203.
startIsDurable(seconds) == seconds >= _dbRequired

\* `secondsDiff > this._dbRequired`, lines 87-90.
updateIsDurable(expires) == (expires - now) > _dbRequired

canRunAction(cooldownUsage) ==
  LET k == getKey(cooldownUsage.cooldownType, cooldownUsage.userId,
                  cooldownUsage.actionId, cooldownUsage.guildId)
      key == k.key
  IN  IF canBypass(cooldownUsage.userId)
        THEN Outcome(Event("canRunAction", undefined, 231, "true", <<>>, 0),
                     _cooldowns, FALSE)
      ELSE IF k.threw
        THEN Outcome(Event("canRunAction", undefined, 151, "error",
                           InvalidScope, 0),
                     _cooldowns, FALSE)
      ELSE IF key \notin DOMAIN _cooldowns
        THEN Outcome(Event("canRunAction", key, 238, "true", <<>>, 0),
                     _cooldowns, FALSE)
      ELSE IF isExpired(_cooldowns[key])
        THEN Outcome(Event("canRunAction", key, 244, "true", <<>>,
                           _cooldowns[key]),
                     delete(_cooldowns, key), FALSE)
      ELSE Outcome(Event("canRunAction", key, 259, "string",
                         replace(errorMessageOf(cooldownUsage),
                                 formatTime(_cooldowns[key] - now)),
                         _cooldowns[key]),
                   _cooldowns, FALSE)

\* The Durations of this model hold no quantity that converts to NaN.
start(cooldownUsage) ==
  LET v == verifyCooldown(cooldownUsage.duration)
      k == getKey(cooldownUsage.cooldownType, cooldownUsage.userId,
                  cooldownUsage.actionId, cooldownUsage.guildId)
      seconds == v.seconds
      key == k.key
      expires == now + seconds
  IN  IF canBypass(cooldownUsage.userId)
        THEN Outcome(Event("start", undefined, 187, "undefined", <<>>, 0),
                     _cooldowns, FALSE)
      ELSE IF ~isCooldownType(cooldownUsage.cooldownType)
        THEN Outcome(Event("start", undefined, 191, "error", UnknownScope, 0),
                     _cooldowns, FALSE)
      ELSE IF v.threw
        THEN Outcome(Event("start", undefined, 196, "error",
                           MalformedDuration, 0),
                     _cooldowns, FALSE)
      ELSE IF k.threw
        THEN Outcome(Event("start", undefined, 151, "error", InvalidScope, 0),
                     _cooldowns, FALSE)
      ELSE IF startIsDurable(seconds)
        THEN Outcome(Event("start", key, 204, "pending", <<>>, expires),
                     _cooldowns, TRUE)
      ELSE Outcome(Event("start", key, 218, "undefined", <<>>, expires),
                   set(_cooldowns, key, expires), FALSE)

cancelCooldown(cooldownUsage) ==
  LET k == getKeyFromCooldownUsage(cooldownUsage)
  IN  IF k.threw
        THEN Outcome(Event("cancelCooldown", undefined, 151, "error",
                           InvalidScope, 0),
                     _cooldowns, FALSE)
      ELSE Outcome(Event("cancelCooldown", k.key, 76, "pending", <<>>, 0),
                   delete(_cooldowns, k.key), TRUE)

updateCooldown(cooldownUsage, expires) ==
  LET k == getKeyFromCooldownUsage(cooldownUsage)
  IN  IF k.threw
        THEN Outcome(Event("updateCooldown", undefined, 151, "error",
                           InvalidScope, expires),
                     _cooldowns, FALSE)
      ELSE IF updateIsDurable(expires)
        THEN Outcome(Event("updateCooldown", k.key, 91, "pending", <<>>,
                           expires),
                     set(_cooldowns, k.key, expires), TRUE)
      ELSE Outcome(Event("updateCooldown", k.key, 104, "undefined", <<>>,
                         expires),
                   set(_cooldowns, k.key, expires), FALSE)

\* No runCommand is between its canRunAction and the synchronous part of its
\* start: the two run in one turn of the event loop.
Atomic == \A d \in DOMAIN disp : disp[d].pc # "checked"

\* The synchronous part of a call runs to its first await.
ApplyIn(slots, r, by) ==
  /\ r.await => slots \ DOMAIN calls # {}
  /\ _cooldowns' = r.cooldowns
  /\ last' = r.event
  /\ IF r.await
       THEN SuspendIn(slots, r.event.op, r.event.key, r.event.expires, by)
       ELSE UNCHANGED calls
  /\ UNCHANGED <<db, now, _botOwnersBypass, _dbRequired, loader>>

Apply(r, by) == ApplyIn(Slots, r, by)

\* A call made on the manager by some other code than runCommand.
InvokeIn(slots, r) ==
  /\ nOps < MaxOps
  /\ nOps' = nOps + 1
  /\ ApplyIn(slots, r, 0)
  /\ UNCHANGED disp

Invoke(r) == InvokeIn(Slots, r)

CanRunAction(cooldownUsage) == Invoke(canRunAction(cooldownUsage))

Start(cooldownUsage) == Invoke(start(cooldownUsage))

Cancel(cooldownUsage) == Invoke(cancelCooldown(cooldownUsage))

UpdateExpiry(cooldownUsage, expires) ==
  Invoke(updateCooldown(cooldownUsage, expires))

\* The store carries out the request of a suspended call: findOneAndUpdate
\* with upsert (start, updateCooldown) or deleteOne (cancelCooldown).
StoreApply(id) ==
  /\ Atomic
  /\ id \in DOMAIN calls
  /\ calls[id].stage = "sent"
  /\ db' = IF calls[id].op = "cancelCooldown"
             THEN delete(db, calls[id].key)
             ELSE set(db, calls[id].key, calls[id].expires)
  /\ calls' = [calls EXCEPT ![id].stage = "applied"]
  /\ UNCHANGED <<_cooldowns, now, _botOwnersBypass, _dbRequired, loader,
                 last, disp, nOps>>

\* What a call does after its await: start sets the Map (line 218), the
\* others return.
afterAwait(call) ==
  IF call.op = "start"
    THEN set(_cooldowns, call.key, call.expires)
    ELSE _cooldowns

\* The reply of the store reaches a suspended call, which runs to its end.
Settle(id) ==
  /\ Atomic
  /\ id \in DOMAIN calls
  /\ calls[id].stage = "applied"
  /\ _cooldowns' = afterAwait(calls[id])
  /\ calls' = delete(calls, id)
  /\ last' = Event(calls[id].op, calls[id].key,
                   CASE calls[id].op = "start" -> 218
                     [] calls[id].op = "cancelCooldown" -> 77
                     [] OTHER -> 104,
                   "undefined", <<>>, calls[id].expires)
  /\ disp' = IF calls[id].by \in DOMAIN disp
               THEN [disp EXCEPT ![calls[id].by].pc = "started",
                                 ![calls[id].by].log = @ \o <<"started">>]
               ELSE disp
  /\ UNCHANGED <<db, now, _botOwnersBypass, _dbRequired, loader, nOps>>

\* The hooks of runCommand call the manager and return nothing (lines
\* 225-231): the promise of the call is held by nobody.
dropped == 0 - 1

StoreError == <<"the store refused the operation">>

\* The store fails the request of a suspended call: the collection is left
\* as it was and the promise of the query rejects.
StoreFail(id) ==
  /\ Atomic
  /\ id \in DOMAIN calls
  /\ calls[id].stage = "sent"
  /\ calls' = [calls EXCEPT ![id].stage = "failed"]
  /\ UNCHANGED <<_cooldowns, db, now, _botOwnersBypass, _dbRequired, loader,
                 last, disp, nOps>>

\* The rejection reaches a suspended call: the await throws (lines 204, 76,
\* 91), the call runs nothing more and its own promise rejects. The promise
\* goes to the caller ("error"), to the runCommand that awaits it, which
\* rejects in turn, or, for a hook, to nobody ("unhandled").
Reject(id) ==
  /\ Atomic
  /\ id \in DOMAIN calls
  /\ calls[id].stage = "failed"
  /\ calls' = delete(calls, id)
  /\ last' = Event(calls[id].op, calls[id].key,
                   CASE calls[id].op = "start" -> 204
                     [] calls[id].op = "cancelCooldown" -> 76
                     [] OTHER -> 91,
                   IF calls[id].by = dropped THEN "unhandled" ELSE "error",
                   StoreError, calls[id].expires)
  /\ disp' = IF calls[id].by \in DOMAIN disp
               THEN [disp EXCEPT ![calls[id].by].pc = "rejected",
                                 ![calls[id].by].result = last']
               ELSE disp
  /\ UNCHANGED <<_cooldowns, db, now, _botOwnersBypass, _dbRequired, loader,
                 nOps>>

-----------------------------------------------------------------------------
(* loadCooldowns, called and not awaited by the constructor (line 48): the  *)
(* deleteMany is issued at construction with the cutoff `new Date()`.       *)

LoadDeleteMany ==
  /\ Atomic
  /\ loader.pc = "deleteMany"
  /\ db' = [k \in {x \in DOMAIN db : ~(db[x] < loader.cutoff)} |-> db[k]]
  /\ loader' = [loader EXCEPT !.pc = "find"]
  /\ UNCHANGED <<_cooldowns, now, _botOwnersBypass, _dbRequired, calls, last,
                 disp, nOps>>

\* find({}) reads the collection.
LoadFind ==
  /\ Atomic
  /\ loader.pc = "find"
  /\ loader' = [loader EXCEPT !.pc = "results", !.results = db]
  /\ UNCHANGED <<_cooldowns, db, now, _botOwnersBypass, _dbRequired, calls,
                 last, disp, nOps>>

\* The results arrive and the loop sets every one of them in the Map.
hydrate(results) == results @@ _cooldowns

LoadResults ==
  /\ Atomic
  /\ loader.pc = "results"
  /\ _cooldowns' = hydrate(loader.results)
  /\ loader' = [loader EXCEPT !.pc = "done", !.results = <<>>]
  /\ UNCHANGED <<db, now, _botOwnersBypass, _dbRequired, calls, last,
                 disp, nOps>>

\* A second passes.
Tick ==
  /\ Atomic
  /\ now < MaxNow
  /\ now' = now + 1
  /\ UNCHANGED <<_cooldowns, db, _botOwnersBypass, _dbRequired, loader, calls,
                 last, disp, nOps>>

-----------------------------------------------------------------------------
(* CommandHandler.runCommand, lines 194-234, for a command whose validations *)
(* pass and whose commandObject has cooldowns.                               *)

\* The cooldowns objects of the commands: cooldown type -> duration.
Commands ==
  { ("perUser" :> numberDuration(1)),
    ("perUser" :> numberDuration(2)),
    ("perGuild" :> numberDuration(2)) @@ ("global" :> numberDuration(1)),
    ("global" :> numberDuration(1)),
    ("perUserPerGuild" :> stringDuration(<<"0", " ", "s">>)),
    ("perChannel" :> numberDuration(1)) }

\* The errorMessage of the cooldowns objects (line 212): absent or custom.
CommandMessages == { {}, {<<"Slow down">>} }

\* The loop of lines 197-202: the first of cooldownTypes the object has, ''
\* when it has none.
RECURSIVE firstType(_, _)
firstType(cooldowns, i) ==
  IF i > Len(cooldownTypes) THEN ""
  ELSE IF cooldownTypes[i] \in DOMAIN cooldowns THEN cooldownTypes[i]
  ELSE firstType(cooldowns, i + 1)

\* cooldownUsage, lines 208-215.
cooldownUsageOf(cooldowns, errorMessage, userId, guildId) ==
  LET cooldownType == firstType(cooldowns, 1)
  IN  usage(cooldownType, userId, guildId, cooldowns[cooldownType],
            errorMessage)

\* The runCommand calls that can be under way at once.
Dispatches == {1, 2}

FreeDispatch == Dispatches \ DOMAIN disp

Dispatched(pc, cooldownUsage, log, result) ==
  [pc |-> pc, usage |-> cooldownUsage, log |-> log, result |-> result]

\* runCommand up to the return of canRunAction (line 217), or to the throw of
\* line 205.
RunCommand(cooldowns, errorMessage, userId, guildId) ==
  /\ Atomic
  /\ nOps < MaxOps
  /\ FreeDispatch # {}
  /\ nOps' = nOps + 1
  /\ LET d == CHOOSE i \in FreeDispatch : \A j \in FreeDispatch : i <= j
     IN  IF firstType(cooldowns, 1) = ""
           THEN /\ disp' = set(disp, d,
                               Dispatched("rejected", {}, <<>>,
                                          Event("runCommand", undefined, 205,
                                                "error", UnknownScope, 0)))
                /\ UNCHANGED <<_cooldowns, db, now, _botOwnersBypass,
                               _dbRequired, loader, calls, last>>
           ELSE LET u == cooldownUsageOf(cooldowns, errorMessage, userId,
                                         guildId)
                    r == canRunAction(u)
                IN  /\ Apply(r, d)
                    /\ disp' = set(disp, d,
                         Dispatched(CASE r.event.kind = "error" -> "rejected"
                                      [] r.event.kind = "string" -> "returned"
                                      [] OTHER -> "checked",
                                    {u}, <<"canRunAction">>, r.event))

afterStart_NotAwaited(r) ==
  IF r.event.kind = "error" THEN "rejected" ELSE "started"

\* Where runCommand is after the synchronous part of start: the throw has
\* left it, the await holds it until start settles, or start has returned.
afterStart(r) ==
  CASE r.event.kind = "error" -> "rejected"
    [] r.await -> "awaitStart"
    [] OTHER -> "started"

\* `await this._instance.cooldowns?.start(cooldownUsage)`, line 223: the
\* synchronous part of start, in the same turn as canRunAction.
RunStartIn(slots, d) ==
  /\ d \in DOMAIN disp
  /\ disp[d].pc = "checked"
  /\ LET u == CHOOSE x \in disp[d].usage : TRUE
         r == start(u)
     IN  /\ ApplyIn(slots, r, d)
         /\ disp' = [disp EXCEPT
              ![d].pc = afterStart(r),
              ![d].log = IF r.event.kind = "undefined"
                           THEN @ \o <<"start", "started">>
                           ELSE @ \o <<"start">>,
              ![d].result = IF r.event.kind = "error"
                              THEN r.event ELSE @]
  /\ UNCHANGED nOps

RunStart(d) == RunStartIn(Slots, d)

\* `callback(usage)`, line 234: the command body begins.
RunBody(d) ==
  /\ Atomic
  /\ d \in DOMAIN disp
  /\ disp[d].pc = "started"
  /\ disp' = [disp EXCEPT ![d].pc = "body", ![d].log = @ \o <<"body">>]
  /\ UNCHANGED <<_cooldowns, db, now, _botOwnersBypass, _dbRequired, loader,
                 calls, last, nOps>>

\* The body calls usage.cancelCooldown(), lines 225-227: not awaited.
HookCancelIn(slots, d) ==
  /\ Atomic
  /\ d \in DOMAIN disp
  /\ disp[d].pc = "body"
  /\ nOps < MaxOps
  /\ nOps' = nOps + 1
  /\ ApplyIn(slots, cancelCooldown(CHOOSE x \in disp[d].usage : TRUE),
             dropped)
  /\ UNCHANGED disp

HookCancel(d) == HookCancelIn(Slots, d)

\* The body calls usage.updateCooldown(expires), lines 229-231: not awaited.
HookUpdateIn(slots, d, expires) ==
  /\ Atomic
  /\ d \in DOMAIN disp
  /\ disp[d].pc = "body"
  /\ nOps < MaxOps
  /\ nOps' = nOps + 1
  /\ ApplyIn(slots, updateCooldown(CHOOSE x \in disp[d].usage : TRUE,
                                    expires),
             dropped)
  /\ UNCHANGED disp

HookUpdate(d, expires) == HookUpdateIn(Slots, d, expires)

\* The body ends and runCommand returns what it returned.
RunReturn(d) ==
  /\ Atomic
  /\ d \in DOMAIN disp
  /\ disp[d].pc = "body"
  /\ disp' = [disp EXCEPT
       ![d].pc = "returned",
       ![d].result = Event("callback", undefined, 234, "string",
                           <<"pong">>, 0)]
  /\ UNCHANGED <<_cooldowns, db, now, _botOwnersBypass, _dbRequired, loader,
                 calls, last, nOps>>

Next ==
  \/ \E u \in CheckUsages : CanRunAction(u)
  \/ \E u \in StartUsages : Start(u)
  \/ \E u \in HookUsages : Cancel(u)
  \/ \E u \in HookUsages : \E delta \in UpdateDeltas :
       UpdateExpiry(u, now + delta)
  \/ \E id \in Slots : StoreApply(id)
  \/ \E id \in Slots : Settle(id)
  \/ LoadDeleteMany
  \/ LoadFind
  \/ LoadResults
  \/ Tick

Spec == Init /\ [][Next]_vars

\* The manager driven by the dispatcher and by the hooks it hands to the
\* command bodies, from the state in which loadCooldowns has finished before
\* the first command arrives.
InitDispatch ==
  /\ db = [k \in {x \in DOMAIN LeftOver : ~(LeftOver[x] < 1)} |-> LeftOver[k]]
  /\ _cooldowns = db
  /\ now = 1
  /\ _botOwnersBypass \in BOOLEAN
  /\ _dbRequired \in DbRequiredChoices
  /\ loader = [pc |-> "done", cutoff |-> 1, results |-> <<>>]
  /\ calls = <<>>
  /\ last = NoEvent
  /\ disp = <<>>
  /\ nOps = 0

NextDispatch ==
  \/ \E c \in Commands : \E m \in CommandMessages : \E user \in Users :
       \E guild \in Guilds : RunCommand(c, m, user, guild)
  \/ \E d \in Dispatches : RunStart(d)
  \/ \E d \in Dispatches : RunBody(d)
  \/ \E d \in Dispatches : HookCancel(d)
  \/ \E d \in Dispatches : \E delta \in UpdateDeltas :
       HookUpdate(d, now + delta)
  \/ \E d \in Dispatches : RunReturn(d)
  \/ \E id \in Slots : StoreApply(id)
  \/ \E id \in Slots : Settle(id)
  \/ Tick

SpecDispatch == InitDispatch /\ [][NextDispatch]_vars

\* The manager under calls that overlap and a store that can fail: two calls
\* can be suspended at their await at once, and the store answers them in
\* any order, each with success or failure.
RaceSlots == {1, 2}

RaceCommands ==
  { ("perUser" :> numberDuration(1)), ("perUser" :> numberDuration(2)) }

RaceUsages == {cooldownUsageOf(c, {}, "u1", "") : c \in RaceCommands}

NextRace ==
  \/ \E c \in RaceCommands : RunCommand(c, {}, "u1", "")
  \/ \E d \in Dispatches : RunStartIn(RaceSlots, d)
  \/ \E d \in Dispatches : RunBody(d)
  \/ \E d \in Dispatches : HookCancelIn(RaceSlots, d)
  \/ \E d \in Dispatches : \E delta \in UpdateDeltas :
       HookUpdateIn(RaceSlots, d, now + delta)
  \/ \E d \in Dispatches : RunReturn(d)
  \/ \E u \in RaceUsages : InvokeIn(RaceSlots, start(u))
  \/ \E u \in RaceUsages : InvokeIn(RaceSlots, cancelCooldown(u))
  \/ \E u \in RaceUsages : \E delta \in UpdateDeltas :
       InvokeIn(RaceSlots, updateCooldown(u, now + delta))
  \/ \E id \in RaceSlots : StoreApply(id)
  \/ \E id \in RaceSlots : StoreFail(id)
  \/ \E id \in RaceSlots : Settle(id)
  \/ \E id \in RaceSlots : Reject(id)
  \/ Tick

SpecRace == InitDispatch /\ [][NextRace]_vars

-----------------------------------------------------------------------------
(* The claims. *)

\* C1: once start has completed for a user that does not bypass, a
\* canRunAction on the same key made before the expiry start computed gives
\* back a string, never true, and the string does not hold the literal
\* token {TIME}.
C1_DeniedWithoutToken ==
  [][(/\ last.op = "start" /\ last.line = 218
      /\ last'.op = "canRunAction" /\ last'.key = last.key
      /\ now' < last.expires)
     => (last'.kind = "string" /\ "{TIME}" \notin Range(last'.value))]_vars

\* A manager call made by other code than runCommand is one step that
\* counts the call and leaves its event in last.
Called(op) == nOps' = nOps + 1 /\ last'.op = op

\* C2 as claimed: a canRunAction on a key whose Map entry has now >= expires
\* gives back true and removes the entry.
C2_AllowedAtOrPastExpiry ==
  [][(/\ Called("canRunAction")
      /\ last'.key \in DOMAIN _cooldowns
      /\ now >= _cooldowns[last'.key])
     => (last'.kind = "true" /\ last'.key \notin DOMAIN _cooldowns')]_vars

\* C2, amended: a canRunAction by a user that does not bypass gives back
\* true and removes the entry of its key, and only that, when now > expires;
\* at now = expires it still gives back a string; on a key without entry it
\* gives back true and leaves the Map alone, whatever the collection holds;
\* it never changes the collection nor suspends on it.
C2_LazyExpiry ==
  [][(Called("canRunAction") /\ last'.kind # "error")
     => LET key == last'.key
        IN  /\ (key \in DOMAIN _cooldowns /\ now > _cooldowns[key])
                 => (last'.kind = "true"
                     /\ _cooldowns' = delete(_cooldowns, key))
            /\ (key \in DOMAIN _cooldowns /\ now = _cooldowns[key])
                 => (last'.kind = "string" /\ _cooldowns' = _cooldowns)
            /\ (key \notin DOMAIN _cooldowns)
                 => (last'.kind = "true" /\ _cooldowns' = _cooldowns)
            /\ db' = db
            /\ calls' = calls]_vars

\* The lazy expiry has happened: the last call was a canRunAction past the
\* expiry of its entry, which is gone, while the collection still holds a
\* record of that key.
C2_Witness ==
  /\ last.op = "canRunAction" /\ last.line = 244 /\ last.kind = "true"
  /\ now > last.expires
  /\ last.key \notin DOMAIN _cooldowns
  /\ last.key \in DOMAIN db

\* C3: with botOwnersBypass on, canRunAction for a bot owner gives back true
\* whatever the Map holds, and start for a bot owner returns at once; neither
\* changes the Map, the collection or the suspended calls.
C3_OwnerBypass ==
  [][/\ (Called("canRunAction") /\ _botOwnersBypass)
          => \A u \in CheckUsages :
               (u.userId \in botOwners /\ CanRunAction(u))
                 => (last'.kind = "true"
                     /\ UNCHANGED <<_cooldowns, db, calls>>)
     /\ (Called("start") /\ _botOwnersBypass)
          => \A u \in StartUsages :
               (u.userId \in botOwners /\ Start(u))
                 => (last'.kind = "undefined"
                     /\ UNCHANGED <<_cooldowns, db, calls>>)]_vars

\* A bot owner was just let through while the window of the guild is live.
C3_Witness ==
  /\ _botOwnersBypass
  /\ last.op = "canRunAction" /\ last.line = 231 /\ last.kind = "true"
  /\ "g1-command_ping" \in DOMAIN _cooldowns
  /\ _cooldowns["g1-command_ping"] > now

\* The steps of a runCommand in their order.
DispatchOrder == <<"canRunAction", "start", "started", "body">>

\* C4: in every runCommand of a command with cooldowns the steps are
\* canRunAction, then start, then the body; the body does not begin while
\* the start of its runCommand is still suspended; and when canRunAction
\* gives back a string, runCommand returns that string in the same step,
\* with neither start nor the body run, and the Map, the collection and the
\* suspended calls are as they were.
C4_PayFirst ==
  /\ [](\A d \in DOMAIN disp :
          /\ Len(disp[d].log) <= Len(DispatchOrder)
          /\ disp[d].log = SubSeq(DispatchOrder, 1, Len(disp[d].log))
          /\ disp[d].pc = "body" => disp[d].log = DispatchOrder
          /\ \A id \in DOMAIN calls :
                calls[id].by = d
                  => (calls[id].op = "start" /\ disp[d].pc = "awaitStart"))
  /\ [][\A d \in DOMAIN disp' :
          /\ (d \notin DOMAIN disp /\ disp'[d].result.kind = "string")
               => /\ disp'[d].pc = "returned"
                  /\ disp'[d].log = <<"canRunAction">>
                  /\ disp'[d].result = last'
                  /\ last'.op = "canRunAction"
                  /\ UNCHANGED <<_cooldowns, db, calls>>
          /\ (d \in DOMAIN disp /\ disp[d].log = <<"canRunAction">>
                /\ disp[d].pc = "returned")
               => disp'[d] = disp[d]]_vars

\* One runCommand has gone through a start that waited for the collection
\* and is in its body, and a second one for the same key has been denied.
C4_Witness ==
  \E d, e \in DOMAIN disp :
    /\ disp[d].pc = "body" /\ disp[d].log = DispatchOrder
    /\ disp[e].pc = "returned" /\ disp[e].log = <<"canRunAction">>
    /\ disp[e].result.kind = "string"
    /\ disp[e].result.key = "u1-command_ping"
    /\ "u1-command_ping" \in DOMAIN db
    /\ db["u1-command_ping"] = _cooldowns["u1-command_ping"]
    /\ db["u1-command_ping"] > now

\* C5: once a cancelCooldown has completed and neither the Map nor the
\* collection holds its key, they do not hold it again before the next call
\* on the manager, whatever loadCooldowns does in between.
C5_CancelledStaysCancelled ==
  [][(/\ last.op = "cancelCooldown" /\ last.line = 77
      /\ last.key \notin DOMAIN _cooldowns
      /\ last.key \notin DOMAIN db
      /\ last' = last)
     => (last.key \notin DOMAIN _cooldowns' /\ last.key \notin DOMAIN db')]_vars

\* C6: once loadCooldowns has finished and no call is suspended, every
\* record of the collection that expires in the future has a Map entry of
\* the same key and the same expiry.
C6_StoresAgree ==
  (loader.pc = "done" /\ calls = <<>>)
    => \A key \in DOMAIN db :
         db[key] > now
           => (key \in DOMAIN _cooldowns /\ _cooldowns[key] = db[key])

\* C7: the first canRunAction made on a new manager for a key whose record
\* in the collection expires in the future gives back a string.
C7_DeniedFromConstruction ==
  [][(/\ nOps = 0
      /\ Called("canRunAction")
      /\ last'.key \in DOMAIN db
      /\ db[last'.key] > now)
     => last'.kind = "string"]_vars

\* The step is a start of this usage by a user that does not bypass, which
\* start accepts.
Started(cooldownUsage) ==
  /\ last'.kind # "error"
  /\ ~canBypass(cooldownUsage.userId)
  /\ Start(cooldownUsage)

\* The seconds start computes for a usage.
secondsOf(cooldownUsage) == verifyCooldown(cooldownUsage.duration).seconds

\* The step has suspended one more call, of this operation on this key with
\* this expiry, on its request to the collection.
Requested(op, key, expires) ==
  \E id \in Slots \ DOMAIN calls :
    calls' = set(calls, id, [op |-> op, key |-> key, expires |-> expires,
                             stage |-> "sent", by |-> 0])

\* C8: a start by a user that does not bypass sends the upsert of its key
\* with the expiry now + seconds exactly when seconds >= dbRequired, and the
\* collection then takes that record; with seconds < dbRequired it sends
\* nothing and the collection is as it was.
C8_DurableFromThreshold ==
  [][/\ Called("start")
          => \A u \in StartUsages :
               Started(u)
                 => /\ db' = db
                    /\ IF secondsOf(u) >= _dbRequired
                         THEN Requested("start", last'.key,
                                        now + secondsOf(u))
                         ELSE calls' = calls
     /\ \A id \in DOMAIN calls :
          (StoreApply(id) /\ calls[id].op = "start")
            => db' = set(db, calls[id].key, calls[id].expires)]_vars

\* A start of exactly dbRequired seconds has just completed after its await
\* and the collection holds its record: a start of fewer seconds expires
\* sooner than this, one of more seconds later.
C8_Witness ==
  /\ last.op = "start" /\ last.line = 218
  /\ last.expires = now + _dbRequired
  /\ last.key \in DOMAIN db /\ db[last.key] = last.expires
  /\ last.key \in DOMAIN _cooldowns /\ _cooldowns[last.key] = last.expires

\* C9 as claimed: after a start of less than dbRequired seconds the
\* collection has no record of the key.
C9_ShortStartHasNoRecord ==
  [][Called("start")
       => \A u \in StartUsages :
            (Started(u) /\ secondsOf(u) < _dbRequired)
              => last'.key \notin DOMAIN db']_vars

\* C9, amended: a start of less than dbRequired seconds sets the Map entry
\* and neither writes nor sends anything to the collection, which keeps the
\* record it may hold of the key; an updateCooldown sets the Map entry to
\* the new expiry and sends the upsert of the key with that expiry exactly
\* when expires - now > dbRequired, and the collection then takes that
\* record; otherwise it sends nothing and the collection is as it was.
C9_Promotion ==
  [][/\ Called("start")
          => \A u \in StartUsages :
               (Started(u) /\ secondsOf(u) < _dbRequired)
                 => /\ _cooldowns'
                         = set(_cooldowns, last'.key, now + secondsOf(u))
                    /\ db' = db
                    /\ calls' = calls
     /\ (Called("updateCooldown") /\ last'.kind # "error")
          => /\ _cooldowns' = set(_cooldowns, last'.key, last'.expires)
             /\ db' = db
             /\ IF last'.expires - now > _dbRequired
                  THEN Requested("updateCooldown", last'.key, last'.expires)
                  ELSE calls' = calls
     /\ \A id \in DOMAIN calls :
          (StoreApply(id) /\ calls[id].op = "updateCooldown")
            => db' = set(db, calls[id].key, calls[id].expires)]_vars

\* An updateCooldown to more than dbRequired seconds from now has completed
\* and the collection holds the record it wrote; no start of this model
\* writes an expiry that far from now and this near.
C9_Witness ==
  /\ last.op = "updateCooldown" /\ last.line = 104
  /\ last.expires - now > _dbRequired
  /\ last.key \in DOMAIN db /\ db[last.key] = last.expires
  /\ last.key \in DOMAIN _cooldowns /\ _cooldowns[last.key] = last.expires

\* A usage of a guild scope without guild id.
outsideGuild(cooldownUsage) ==
  /\ cooldownUsage.cooldownType \in {"perGuild", "perUserPerGuild"}
  /\ cooldownUsage.guildId = ""

\* The call threw the error of getKey and left the Map, the collection and
\* the suspended calls as they were.
ThrewInvalidScope ==
  /\ last'.kind = "error" /\ last'.value = InvalidScope
  /\ UNCHANGED <<_cooldowns, db, calls>>

\* C10 as claimed: each of the four calls, made with a guild scope and no
\* guild id, throws the error of getKey and changes nothing.
C10_AlwaysInvalidScope ==
  [][/\ Called("canRunAction")
          => \A u \in CheckUsages :
               (outsideGuild(u) /\ CanRunAction(u)) => ThrewInvalidScope
     /\ Called("start")
          => \A u \in StartUsages :
               (outsideGuild(u) /\ Start(u)) => ThrewInvalidScope
     /\ Called("cancelCooldown")
          => \A u \in HookUsages :
               (outsideGuild(u) /\ Cancel(u)) => ThrewInvalidScope
     /\ Called("updateCooldown")
          => \A u \in HookUsages : \A delta \in UpdateDeltas :
               (outsideGuild(u) /\ UpdateExpiry(u, now + delta))
                 => ThrewInvalidScope]_vars

\* C10, amended: with a guild scope and no guild id, cancelCooldown and
\* updateCooldown throw the error of getKey; canRunAction and start throw it
\* for a user that does not bypass, start only once it has accepted the
\* duration, a malformed one being the error it throws first; for a bot
\* owner that bypasses canRunAction gives back true and start returns; and
\* in every one of these cases the Map, the collection and the suspended
\* calls are as they were.
C10_InvalidScope ==
  [][/\ Called("canRunAction")
          => \A u \in CheckUsages :
               (outsideGuild(u) /\ CanRunAction(u))
                 => /\ UNCHANGED <<_cooldowns, db, calls>>
                    /\ IF _botOwnersBypass /\ u.userId \in botOwners
                         THEN last'.kind = "true"
                         ELSE ThrewInvalidScope
     /\ Called("start")
          => \A u \in StartUsages :
               (outsideGuild(u) /\ Start(u))
                 => /\ UNCHANGED <<_cooldowns, db, calls>>
                    /\ IF _botOwnersBypass /\ u.userId \in botOwners
                         THEN last'.kind = "undefined"
                         ELSE IF verifyCooldown(u.duration).threw
                           THEN (last'.kind = "error"
                                 /\ last'.value = MalformedDuration)
                         ELSE ThrewInvalidScope
     /\ Called("cancelCooldown")
          => \A u \in HookUsages :
               (outsideGuild(u) /\ Cancel(u)) => ThrewInvalidScope
     /\ Called("updateCooldown")
          => \A u \in HookUsages : \A delta \in UpdateDeltas :
               (outsideGuild(u) /\ UpdateExpiry(u, now + delta))
                 => ThrewInvalidScope]_vars

\* A start outside a guild has thrown the error of getKey while the Map and
\* the collection hold the window of another key.
C10_Witness ==
  /\ last.op = "start" /\ last.line = 151
  /\ last.kind = "error" /\ last.value = InvalidScope
  /\ "g1-command_ping" \in DOMAIN _cooldowns
  /\ "g1-command_ping" \in DOMAIN db

-----------------------------------------------------------------------------
(* getKey called on its own (it is a public method), with ids that hold the *)
(* separator and a user id that is also a guild id.                         *)

KeyUsers == {"a", "a-b"}
KeyActions == {"c", "b-c"}
KeyGuilds == {"", "a", "a-b", "b"}

\* A call of getKey: the event keeps the arguments in value.
GetKey(cooldownType, userId, actionId, guildId) ==
  /\ LET k == getKey(cooldownType, userId, actionId, guildId)
     IN  last' = Event("getKey", k.key, IF k.threw THEN 151 ELSE 139,
                       IF k.threw THEN "error" ELSE "string",
                       <<cooldownType, userId, actionId, guildId>>, 0)
  /\ UNCHANGED <<_cooldowns, db, now, _botOwnersBypass, _dbRequired, loader,
                 calls, disp, nOps>>

NextKeys ==
  \E cooldownType \in Range(cooldownTypes) : \E userId \in KeyUsers :
    \E actionId \in KeyActions : \E guildId \in KeyGuilds :
      GetKey(cooldownType, userId, actionId, guildId)

SpecKeys == InitDispatch /\ [][NextKeys]_vars

\* The ids getKey reads under a cooldown type, out of <<cooldownType, userId,
\* actionId, guildId>>.
idsRead(args) ==
  CASE args[1] = "perUser" -> <<args[2], args[3]>>
    [] args[1] = "perUserPerGuild" -> <<args[2], args[4], args[3]>>
    [] args[1] = "perGuild" -> <<args[4], args[3]>>
    [] OTHER -> <<args[3]>>

\* C11: two calls of getKey under the same cooldown type whose ids, those
\* the type reads, differ give different keys.
C11_Injective ==
  [][(/\ last.op = "getKey" /\ last.kind = "string"
      /\ last'.op = "getKey" /\ last'.kind = "string"
      /\ last'.value[1] = last.value[1]
      /\ idsRead(last'.value) # idsRead(last.value))
     => last'.key # last.key]_vars

-----------------------------------------------------------------------------
(* verifyCooldown called on its own (it is a public method).                *)

\* The characters of the duration strings, and the strings of up to MaxLen
\* of them.
ParseChars == {"0", "1", "a", " ", "m", "S"}

ParseStrings == UNION {[1..n -> ParseChars] : n \in 0..MaxLen}

ParseDurations ==
  {stringDuration(chars) : chars \in ParseStrings}
    \cup {numberDuration(45), numberDuration(0)}

\* A call of verifyCooldown: the event keeps the argument in value and has
\* the number returned in seconds.
VerifyCooldown(duration) ==
  /\ LET v == verifyCooldown(duration)
     IN  last' = [op |-> "verifyCooldown", key |-> undefined,
                  line |-> IF v.threw THEN 113 ELSE 136,
                  kind |-> CASE v.threw -> "error"
                             [] v.nan -> "NaN"
                             [] OTHER -> "number",
                  value |-> <<duration>>, expires |-> 0,
                  seconds |-> v.seconds]
  /\ UNCHANGED <<_cooldowns, db, now, _botOwnersBypass, _dbRequired, loader,
                 calls, disp, nOps>>

NextParse == \E duration \in ParseDurations : VerifyCooldown(duration)

SpecParse == InitDispatch /\ [][NextParse]_vars

\* The seconds of the four units, whatever the case of the unit.
unitSeconds ==
  [s |-> 1, m |-> 60, h |-> 3600, d |-> 86400,
   S |-> 1, M |-> 60, H |-> 3600, D |-> 86400]

\* The string is two tokens around one space, a number greater than 0 and
\* one of the units.
wellFormed(chars) ==
  /\ Len(split(chars)) = 2
  /\ ~toNumber(split(chars)[1]).nan
  /\ toNumber(split(chars)[1]).value > 0
  /\ join(split(chars)[2]) \in DOMAIN unitSeconds

\* C12: verifyCooldown returns a number as it is; of a string it returns the
\* quantity times the seconds of the unit when the string is well formed and
\* throws when it is not, so what it returns for a string is a number
\* greater than 0.
C12_ParsesOrFails ==
  last.op = "verifyCooldown"
    => LET duration == last.value[1]
       IN  IF duration.type = "number"
             THEN last.kind = "number" /\ last.seconds = duration.value
           ELSE IF wellFormed(duration.text)
             THEN /\ last.kind = "number"
                  /\ last.seconds
                       = toNumber(split(duration.text)[1]).value
                           * unitSeconds[join(split(duration.text)[2])]
                  /\ last.seconds > 0
           ELSE last.kind = "error"

-----------------------------------------------------------------------------
(* Calls that overlap, and a store that fails.                              *)

\* What a map holds for a key: {} when it holds nothing.
stateOf(map, key) == IF key \in DOMAIN map THEN {map[key]} ELSE {}

\* What the durable write of a call leaves for its key.
produced(call) ==
  IF call.op = "cancelCooldown" THEN {} ELSE {call.expires}

\* What the Map holds for the key of the two suspended calls once both have
\* run to their end, `first` before the other (line 218 for a start).
finalCache(first) ==
  LET second == CHOOSE id \in RaceSlots : id # first
      afterFirst == IF calls[first].op = "start"
                      THEN {calls[first].expires}
                      ELSE stateOf(_cooldowns, calls[first].key)
  IN  IF calls[second].op = "start"
        THEN {calls[second].expires}
        ELSE afterFirst

\* Two mutating calls on one key are suspended, the store has carried out
\* both requests, and nothing was called since the later of the two.
BothApplied ==
  /\ DOMAIN calls = RaceSlots
  /\ \A id \in RaceSlots : calls[id].stage = "applied"
  /\ \A id \in RaceSlots : calls[id].key = last.key
  /\ last.kind = "pending"

\* C13: when two mutating operations on one key were both in flight, the
\* record the collection ends with for the key is the one the operation
\* invoked later produced, and the Map ends with the same for the key,
\* whichever of the two calls finishes first.
C13_LaterWins ==
  BothApplied =>
    LET later == CHOOSE id \in RaceSlots :
                   /\ calls[id].op = last.op
                   /\ calls[id].expires = last.expires
    IN  /\ stateOf(db, last.key) = produced(calls[later])
        /\ \A first \in RaceSlots : finalCache(first) = stateOf(db, last.key)

\* C14: a call whose store operation failed ends in an error that reaches
\* its caller, for a direct caller and for a command body that called a
\* hook.
C14_FailureObserved ==
  [][\A id \in RaceSlots :
       (/\ id \in DOMAIN calls
        /\ calls[id].stage = "failed"
        /\ id \notin DOMAIN calls')
       => last'.kind = "error"]_vars

\* C16: after a start whose upsert failed, with nothing called on the manager
\* in between, the Map holds the expiry start computed for the key.
C16_CacheWrittenOnFailure ==
  [][\A id \in RaceSlots :
       (/\ id \in DOMAIN calls
        /\ calls[id].op = "start"
        /\ calls[id].stage = "failed"
        /\ id \notin DOMAIN calls'
        /\ last.kind = "pending"
        /\ last.op = "start"
        /\ last.key = calls[id].key)
       => stateOf(_cooldowns', calls[id].key) = {calls[id].expires}]_vars

\* The key of the usage of a runCommand invocation: {} when it has none.
keysOf(dispatched) ==
  {getKeyFromCooldownUsage(u).key : u \in dispatched.usage}

-----------------------------------------------------------------------------
(* Cooldown types that are none of cooldownTypes.                           *)

\* The keys of the four formats of getKey over the ids of this model.
FormatKeys ==
  {getKey(t, u, "command_ping", g).key :
     t \in Range(cooldownTypes), u \in Users, g \in Guilds \ {""}}

\* C15: a start by a user that does not bypass, with a cooldown type that is
\* none of cooldownTypes, throws the unknown-type error and leaves the Map,
\* the collection and the suspended calls as they were; and every key a
\* start adds to the Map, at once or after its await, or has the store add
\* to the collection, is of one of the four formats.
C15_UnknownScope ==
  [][/\ Called("start")
          => /\ \A u \in StartUsages :
                  (/\ ~isCooldownType(u.cooldownType)
                   /\ ~canBypass(u.userId)
                   /\ Start(u))
                  => /\ last'.kind = "error" /\ last'.value = UnknownScope
                     /\ last'.line = 191
                     /\ UNCHANGED <<_cooldowns, db, calls>>
             /\ (DOMAIN _cooldowns') \ (DOMAIN _cooldowns) \subseteq FormatKeys
             /\ \A id \in DOMAIN calls' : calls'[id].key \in FormatKeys
     /\ \A id \in DOMAIN calls :
          (calls[id].op = "start" /\ (StoreApply(id) \/ Settle(id)))
            => /\ (DOMAIN _cooldowns') \ (DOMAIN _cooldowns)
                    \subseteq FormatKeys
               /\ (DOMAIN db') \ (DOMAIN db) \subseteq FormatKeys]_vars

\* A start with the type perChannel by u1, who does not bypass, has thrown
\* the unknown-type error.
C15_Witness ==
  /\ last.op = "start" /\ last.line = 191
  /\ last.kind = "error" /\ last.value = UnknownScope

-----------------------------------------------------------------------------
(* The frame of canRunAction.                                               *)

\* C18: a canRunAction, whatever it gives back, sends nothing to the
\* collection and leaves it as it was; past the expiry of the entry of its
\* key (line 244) it removes that entry from the Map and the record of the
\* key stays in the collection; otherwise it leaves the Map as it was; and
\* the entries of all other keys are always as they were.
C18_CheckFrame ==
  [][Called("canRunAction")
     => /\ db' = db
        /\ calls' = calls
        /\ DOMAIN _cooldowns' \subseteq DOMAIN _cooldowns
        /\ \A k \in DOMAIN _cooldowns :
             k # last'.key
               => (k \in DOMAIN _cooldowns' /\ _cooldowns'[k] = _cooldowns[k])
        /\ IF last'.line = 244
             THEN /\ last'.key \in DOMAIN _cooldowns
                  /\ last'.key \notin DOMAIN _cooldowns'
                  /\ stateOf(db', last'.key) = stateOf(db, last'.key)
             ELSE _cooldowns' = _cooldowns]_vars

\* A canRunAction has removed the expired entry of its key while the Map
\* holds the entry of another key and the collection holds the records of
\* both.
C18_Witness ==
  /\ last.op = "canRunAction" /\ last.line = 244
  /\ last.key \notin DOMAIN _cooldowns
  /\ last.key \in DOMAIN db
  /\ \E k \in DOMAIN _cooldowns : k # last.key /\ k \in DOMAIN db

-----------------------------------------------------------------------------
(* Requests of different cooldown types.                                    *)

\* Requests whose ids are arbitrary strings: an id can be both a user id and
\* a guild id, and an action id can hold the separator.
\* <<cooldownType, userId, guildId, actionId>>
ScopeRequests ==
  { <<"perUser", "x", "x", "c">>,
    <<"perGuild", "x", "x", "c">>,
    <<"perGuild", "x", "y", "c">>,
    <<"perUserPerGuild", "x", "y", "c">>,
    <<"perUser", "x", "y", "y-c">> }

ScopeUsages ==
  {[cooldownType |-> r[1], userId |-> r[2], guildId |-> r[3],
    actionId |-> r[4], duration |-> numberDuration(1), errorMessage |-> {}] :
     r \in ScopeRequests}

NextScopes ==
  \/ \E u \in ScopeUsages : CanRunAction(u)
  \/ \E u \in ScopeUsages : Start(u)
  \/ \E u \in ScopeUsages : Cancel(u)
  \/ \E u \in ScopeUsages : \E delta \in UpdateDeltas :
       UpdateExpiry(u, now + delta)
  \/ \E id \in Slots : StoreApply(id)
  \/ \E id \in Slots : Settle(id)
  \/ Tick

SpecScopes == InitDispatch /\ [][NextScopes]_vars

\* C19: a start, cancelCooldown or updateCooldown made with one cooldown
\* type leaves what canRunAction gives back (true or a denial) to every
\* request of another cooldown type as it was.
C19_ScopesApart ==
  [][\A u \in ScopeUsages : \A v \in ScopeUsages :
       (/\ u.cooldownType # v.cooldownType
        /\ \/ Start(u)
           \/ Cancel(u)
           \/ \E delta \in UpdateDeltas : UpdateExpiry(u, now + delta))
       => (canRunAction(v).event.kind)' = canRunAction(v).event.kind]_vars

-----------------------------------------------------------------------------
(* The time of a denial.                                                    *)

\* The seconds left of the window that is checked: around each boundary of
\* minute, hour and day, and sums of them.
Remaining ==
  {0, 1, 2, 58, 59, 60, 61, 62, 119, 120, 121, 3598, 3599, 3600, 3601, 3602,
   3660, 3661, 7200, 7260, 86398, 86399, 86400, 86401, 86402, 86460, 86461,
   90000, 90001, 90060, 90061, 172800, 172801, 176400}

TimeUsages == {usage("perUser", "u1", "", numberDuration(1), {})}

\* The Map holds one window, for the key of u1, with some seconds left.
InitTime ==
  /\ \E r \in Remaining : _cooldowns = ("u1-command_ping" :> (1 + r))
  /\ db = _cooldowns
  /\ now = 1
  /\ _botOwnersBypass \in BOOLEAN
  /\ _dbRequired \in DbRequiredChoices
  /\ loader = [pc |-> "done", cutoff |-> 1, results |-> <<>>]
  /\ calls = <<>>
  /\ last = NoEvent
  /\ disp = <<>>
  /\ nOps = 0

NextTime ==
  \/ \E u \in TimeUsages : CanRunAction(u)
  \/ Tick

SpecTime == InitTime /\ [][NextTime]_vars

\* "{d}d {h}h {m}m {s}s" with only the leading zero-valued units left out.
leadingZerosLeftOut(r) ==
  LET d == r \div 86400
      h == (r % 86400) \div 3600
      m == (r % 3600) \div 60
      s == r % 60
      hms == ToString(h) \o "h " \o ToString(m) \o "m " \o ToString(s) \o "s"
  IN  IF d > 0 THEN ToString(d) \o "d " \o hms
      ELSE IF h > 0 THEN hms
      ELSE IF m > 0 THEN ToString(m) \o "m " \o ToString(s) \o "s"
      ELSE ToString(s) \o "s"

\* C20: the time in a denial is that of the r seconds left, printed as days,
\* hours, minutes and seconds with only the leading zero-valued units left
\* out and the seconds always printed.
C20_LeadingZerosOnly ==
  [][Called("canRunAction")
     => \A u \in TimeUsages :
          (CanRunAction(u) /\ last'.kind = "string")
            => last'.value
                 = replace(errorMessageOf(u),
                           leadingZerosLeftOut(_cooldowns[last'.key] - now))
    ]_vars

====
